---- MODULE Spec2Model ----
(***************************************************************************)
(* Model of the WebSocket relay + Telegram bridge of relay/index.js.       *)
(*                                                                         *)
(* State: the server's set of client sockets (wss.clients, in insertion    *)
(* order, each with its readyState), the two dedupe structures (recentIds, *)
(* recentHashTimestamps), the wall clock read by Date.now(), the cleanup   *)
(* interval, the configuration read from the environment and the           *)
(* sendMessage promises that have not settled yet.                         *)
(* One action per handler: connection, close, the 'message' handler of a   *)
(* client socket, the two Telegraf handlers, the cleanup interval and the  *)
(* settlement of a sendMessage promise.  Handlers run to completion on the *)
(* single event loop, so every action is one whole handler.                *)
(*                                                                         *)
(* `last` records what the handler that just ran was given and what it     *)
(* did (which sockets got the payload, how many sendMessage calls it       *)
(* started); `admittedAt`, `idsSinceClear`, `prevTg`, `inbox`, `seq` and   *)
(* `admitter` are history variables that the program does not have.        *)
(*                                                                         *)
(* The specifications run the same actions on different inputs:            *)
(*   Spec          the router: sockets come and go, frames of every shape  *)
(*                 and origin, Telegram updates, sendMessage settlements;  *)
(*   SpecDedup     the deduplicator: two open sockets, a clock that moves  *)
(*                 in steps around the window, recentIds empty or at its   *)
(*                 limit;                                                  *)
(*   SpecPrune     SpecDedup with the cleanup interval firing forever;     *)
(*   SpecTg        the Telegraf handlers: every chat, text and caption;    *)
(*   SpecIdentity  the sender mapping: every ctx.from and mapping table;   *)
(*   SpecConn      two sockets and what each receives from the other;      *)
(*   SpecVariants  the other relays of the repository: server.js,          *)
(*                 unnamed/part_000 and unnamed/part_001.                  *)
(***************************************************************************)
EXTENDS Integers, Sequences, FiniteSets, TLC

\* ------------------------------------------------------------------ bounds
MaxConns == 2          \* sockets that may exist
MaxTicks == 3          \* clock advances in one run
MaxInflight == 1       \* sendMessage promises pending at once

\* ------------------------------------------------------- program constants
DEDUPE_WINDOW_MS == 3000
RECENT_IDS_LIMIT == 2000

\* ------------------------------------------------------------------ values
\* JavaScript's undefined (an absent property); its string conversion is
\* "undefined", which is what a template literal makes of it.
Undefined == "undefined"
\* The falsy values a JSON property can carry ("" stands for "", 0, false, null).
Falsy(v) == v \in {Undefined, ""}
\* An id made by genId(): unique, so never equal to an id seen before.
Generated == "<uuid>"
\* No instant: the value of a history lookup that found nothing.
Never == 0 - 1

Conns == 1 .. MaxConns
\* The room named in the upgrade request of a connection (req.url).  The
\* handler of 'connection' receives req and reads only its remote address.
RoomOf(c) == IF c % 2 = 1 THEN "r1" ELSE "r2"

\* ------------------------------------------------------------------ inputs
\* Text frames a client may send.  shape is what JSON.parse makes of the
\* text: "text" (not JSON), "object", "array", "primitive" (a number, a
\* string or a boolean) or "null".  A property is Undefined when absent.
Frame(shape, id, origin, sender, message) ==
    [shape |-> shape, id |-> id, origin |-> origin, sender |-> sender,
     message |-> message]

\* Frames for the router: every origin, every shape.
RouteFrames ==
    {Frame("object", Undefined, o, Undefined, "hi") :
        o \in {Undefined, "", "client", "telegram"}}
    \cup {Frame("text", Undefined, Undefined, Undefined, "hi")}
    \cup {Frame(s, Undefined, Undefined, Undefined, Undefined) :
            s \in {"primitive", "null"}}

\* Frames that exercise the deduplicator: ids and (sender, message) pairs.
\* Two of the (sender, message) pairs differ and are rendered alike by hashKey.
DedupFrames ==
    {Frame("object", i, "client", c[1], c[2]) :
        i \in {Undefined, "x1"},
        c \in {<<"a", "b::c">>, <<"a::b", "c">>}}

\* Clock advances, chosen to land just before, on and just after the window.
FineSteps == {1, 2999}

\* Updates of the Telegram platform, as the handlers read them.
Update(chatId, chatType, text, caption, username, fromId, first, lastName) ==
    [chatId |-> chatId, chatType |-> chatType, text |-> text, caption |-> caption,
     username |-> username, fromId |-> fromId, first_name |-> first,
     last_name |-> lastName]

\* 'message' updates come from private chats and groups.
MessageUpdates ==
    {Update(c, t, x[1], x[2], u, "42", Undefined, Undefined) :
        c \in {"-100", "-200"}, t \in {"private", "group"},
        x \in {<<"hello", Undefined>>, <<Undefined, "pic">>,
               <<Undefined, Undefined>>, <<"", "pic">>},
        u \in {Undefined, "Bob"}}

\* 'channel_post' updates come from channels.
ChannelPostUpdates ==
    {Update(c, "channel", x, Undefined, u, "42", Undefined, Undefined) :
        c \in {"-100", "-200"}, x \in {"hello", Undefined},
        u \in {Undefined, "Bob"}}

\* The few updates the router is run with.
RouteMessageUpdates ==
    {Update(c, "group", "hello", Undefined, "Bob", "42", Undefined, Undefined) :
        c \in {"-100", "-200"}}
RouteChannelPostUpdates ==
    {Update("-100", "channel", "hello", Undefined, "Bob", "42", Undefined, Undefined)}

VARIABLES
    env,            \* the program run, BOT_TOKEN, CHAT_ID, usernameMap, idMap (set at startup)
    clients,        \* wss.clients: sequence of sockets, in insertion order
    readyState,     \* readyState of every socket of clients
    recentIds,      \* [named: ids sent by clients, anon: number of other ids]
    recentHashTimestamps,   \* hashKey -> timestamp, Never if absent
    now,            \* Date.now()
    ticks,          \* clock advances so far
    inflight,       \* sendMessage promises not settled yet
    admittedAt,     \* history: (sender, message) -> time of its last admission
    idsSinceClear,  \* history: ids admitted since recentIds was last emptied
    prevTg,         \* history: key and time of the last Telegram broadcast
    trace,          \* history: which of "inbox" (with seq) and "admitter" are kept
    inbox,          \* history: socket -> the client payloads sent to it, in order
    seq,            \* history: socket -> number of its frames admitted so far
    admitter,       \* history: which socket an id, a (sender, message) came from
    last            \* what the last handler was given and did

vars == <<env, clients, readyState, recentIds, recentHashTimestamps, now, ticks,
          inflight, admittedAt, idsSinceClear, prevTg, trace, inbox, seq,
          admitter, last>>

\* The history that only the per-connection specification keeps.
hist == <<trace, inbox, seq, admitter>>

\* ------------------------------------------------------------ configuration
BOT_TOKEN == env.BOT_TOKEN
CHAT_ID == env.CHAT_ID
TELEGRAM_ENABLED == BOT_TOKEN # "" /\ CHAT_ID # ""

\* ------------------------------------------------------------------ dedupe
hashKey(sender, message) == sender \o "::" \o message

\* The (sender, message) pairs of the envelopes that the frames above become,
\* and their keys in recentHashTimestamps.
Pairs ==
    {<<"unknown", "hi">>, <<Undefined, Undefined>>, <<"a", "b::c">>, <<"a::b", "c">>}
HashKeys == {hashKey(p[1], p[2]) : p \in Pairs}

RecentIdsSize(ids) == Cardinality(ids.named) + ids.anon

\* Mutant: an entry is deleted once it is a whole window old.
pruneRecent_Inclusive(ids, hashes, t) ==
    [ids |-> IF RecentIdsSize(ids) > RECENT_IDS_LIMIT
             THEN [named |-> {}, anon |-> 0]
             ELSE ids,
     hashes |-> [k \in HashKeys |->
                   IF hashes[k] # Never /\ t - hashes[k] >= DEDUPE_WINDOW_MS
                   THEN Never
                   ELSE hashes[k]]]

\* Mutant: no entry of recentHashTimestamps is deleted.
pruneRecent_KeepStale(ids, hashes, t) ==
    [ids |-> IF RecentIdsSize(ids) > RECENT_IDS_LIMIT
             THEN [named |-> {}, anon |-> 0]
             ELSE ids,
     hashes |-> hashes]

\* Mutant: recentIds is emptied one id later.
pruneRecent_LateClear(ids, hashes, t) ==
    [ids |-> IF RecentIdsSize(ids) > RECENT_IDS_LIMIT + 1
             THEN [named |-> {}, anon |-> 0]
             ELSE ids,
     hashes |-> [k \in HashKeys |->
                   IF hashes[k] # Never /\ t - hashes[k] > DEDUPE_WINDOW_MS
                   THEN Never
                   ELSE hashes[k]]]

\* pruneRecent() at time t: what it leaves of recentIds and recentHashTimestamps.
pruneRecent(ids, hashes, t) ==
    [ids |-> IF RecentIdsSize(ids) > RECENT_IDS_LIMIT
             THEN [named |-> {}, anon |-> 0]
             ELSE ids,
     hashes |-> [k \in HashKeys |->
                   IF hashes[k] # Never /\ t - hashes[k] > DEDUPE_WINDOW_MS
                   THEN Never
                   ELSE hashes[k]]]

\* Mutant: the id test never finds the id.
DuplicateById_Never(ids, id) == FALSE

DuplicateById(ids, id) == id \in ids.named

\* Mutant: the hash test finds no duplicate.
DuplicateByHash_Never(hashes, k, t) == FALSE

DuplicateByHash(hashes, k, t) ==
    hashes[k] # Never /\ t - hashes[k] < DEDUPE_WINDOW_MS

AddId(ids, id) ==
    IF id = Generated
    THEN [ids EXCEPT !.anon = @ + 1]
    ELSE [ids EXCEPT !.named = @ \cup {id}]

\* ------------------------------------------------- normalisation of a frame
\* JSON.parse(s), and the replacement object when it throws.
JsonParse(f) ==
    IF f.shape = "text"
    THEN [shape |-> "object", id |-> Generated, origin |-> "client",
          sender |-> "unknown", message |-> f.message]
    ELSE f

\* Reading a property of null throws a TypeError, which the outer catch logs.
PropertyAccessThrows(obj) == obj.shape = "null"

\* A property written to a primitive is dropped (the file is sloppy-mode
\* CommonJS), so the four properties of a primitive stay undefined.
Writable(obj) == obj.shape \in {"object", "array"}

Default(obj, v, d) == IF Falsy(v) /\ Writable(obj) THEN d ELSE v

normalize(obj) ==
    [shape |-> obj.shape,
     id |-> Default(obj, obj.id, Generated),
     origin |-> Default(obj, obj.origin, "client"),
     sender |-> Default(obj, obj.sender, "unknown"),
     message |-> Default(obj, obj.message, "")]

\* ------------------------------------------------------------------ fan-out
Range(q) == {q[i] : i \in 1 .. Len(q)}

IsOpen(c) == readyState[c] = "OPEN"

\* Mutant: the broadcast does not look at readyState.
BroadcastTargets_AnyState(ws) == SelectSeq(clients, LAMBDA c : c # ws)

\* Mutant: the sender is not left out of its own broadcast.
BroadcastTargets_Echo(ws) == SelectSeq(clients, LAMBDA c : IsOpen(c))

\* wss.clients.forEach of the client 'message' handler: every other open socket.
BroadcastTargets(ws) == SelectSeq(clients, LAMBDA c : c # ws /\ IsOpen(c))

\* wss.clients.forEach of the Telegraf handlers: every open socket.
TgBroadcastTargets == SelectSeq(clients, LAMBDA c : IsOpen(c))

\* forEach stops at the first client.send that throws: the sockets before it
\* have the payload, that one and the ones after it do not.
FirstIndex(q, c) == CHOOSE i \in 1 .. Len(q) : q[i] = c
SendEach(targets, bad) ==
    IF bad \in Range(targets)
    THEN [sent |-> SubSeq(targets, 1, FirstIndex(targets, bad) - 1), raised |-> TRUE]
    ELSE [sent |-> targets, raised |-> FALSE]

\* Mutant: the early returns are missing, a rejected frame is broadcast too.
Deliver_Always(admit, targets, bad) == SendEach(targets, bad)

\* The two early returns of the dedupe step: a rejected frame reaches no send.
Deliver(admit, targets, bad) ==
    IF admit THEN SendEach(targets, bad) ELSE [sent |-> <<>>, raised |-> FALSE]

\* Mutant: the origin is not looked at.
ShouldForward_AnyOrigin(origin) == TELEGRAM_ENABLED

\* The guard of bot.telegram.sendMessage in the client 'message' handler.
ShouldForward(origin) == TELEGRAM_ENABLED /\ origin = "client"


\* ------------------------------------------------------- Telegram handlers
\* extractTextFromCtx: the text if it is a string, else the caption if it is
\* a string, else null.
extractTextFromCtx(u) ==
    IF u.text # Undefined THEN u.text
    ELSE IF u.caption # Undefined THEN u.caption
    ELSE Undefined

\* Mutant: the 'message' handler accepts every chat.
AcceptMessage_Any(chatId, chatType) == TRUE

\* The acceptance test of the 'message' handler.
AcceptMessage(chatId, chatType) ==
    ~(CHAT_ID # "" /\ CHAT_ID # chatId /\ chatType # "private")

\* The acceptance test of the 'channel_post' handler.
AcceptChannelPost(chatId, chatType) ==
    ~(CHAT_ID # "" /\ CHAT_ID # chatId)

toLowerCase(s) == IF s = "Bob" THEN "bob" ELSE s

\* usernameMap and idMap are plain objects ({}): a key they do not hold is
\* looked up on Object.prototype, where "constructor" is the function Object.
ObjectFunction == "[Function: Object]"
InheritedKeys == {"constructor"}

\* map[k]
Lookup(map, k) ==
    IF k \in DOMAIN map THEN map[k]
    ELSE IF k \in InheritedKeys THEN ObjectFunction
    ELSE Undefined

\* The sender mapping of bot.on('channel_post'), statement by statement.
resolveSenderChannelPost(u) ==
    LET username == IF Falsy(u.username) THEN Undefined ELSE u.username
        fromIdStr == IF Falsy(u.fromId) THEN Undefined ELSE u.fromId
        mapped0 == Undefined
        mapped1 == IF username # Undefined
                      /\ ~Falsy(Lookup(env.usernameMap, toLowerCase(username)))
                   THEN Lookup(env.usernameMap, toLowerCase(username))
                   ELSE mapped0
        mapped2 == IF Falsy(mapped1) /\ fromIdStr # Undefined
                      /\ ~Falsy(Lookup(env.idMap, fromIdStr))
                   THEN Lookup(env.idMap, fromIdStr)
                   ELSE mapped1
        nameParts == (IF Falsy(u.first_name) THEN "" ELSE u.first_name)
                     \o (IF Falsy(u.last_name) THEN "" ELSE " " \o u.last_name)
    IN
    IF ~Falsy(mapped2) THEN mapped2
    ELSE IF username # Undefined THEN username
    ELSE IF ~Falsy(u.first_name) \/ ~Falsy(u.last_name) THEN nameParts
    ELSE IF fromIdStr # Undefined THEN fromIdStr ELSE "[TG]"

\* The sender mapping of bot.on('message').
resolveSender(u) ==
    LET username == IF Falsy(u.username) THEN Undefined ELSE u.username
        fromIdStr == IF Falsy(u.fromId) THEN Undefined ELSE u.fromId
        byName == IF username # Undefined
                  THEN Lookup(env.usernameMap, toLowerCase(username))
                  ELSE Undefined
        byId == IF fromIdStr # Undefined
                THEN Lookup(env.idMap, fromIdStr)
                ELSE Undefined
    IN
    IF ~Falsy(byName) THEN byName
    ELSE IF ~Falsy(byId) THEN byId
    ELSE IF username # Undefined THEN username
    ELSE IF ~Falsy(u.first_name) \/ ~Falsy(u.last_name)
         THEN (IF Falsy(u.first_name) THEN "" ELSE u.first_name)
              \o (IF Falsy(u.last_name) THEN "" ELSE " " \o u.last_name)
    ELSE IF fromIdStr # Undefined THEN fromIdStr
    ELSE "[TG]"

\* Mutant: a socket hands a payload over ahead of the ones sent to it before.
Receive_Front(q, m) == <<m>> \o q

\* What a socket has been sent, after client.send(m): a socket carries its
\* frames in the order of the send calls.
Receive(q, m) == Append(q, m)

\* The socket that the id was last admitted from; 0 if it never was.
AdmitterOfId(known, id) ==
    IF \E x \in known : x[1] = id
    THEN (CHOOSE x \in known : x[1] = id)[2]
    ELSE 0

\* ---------------------------------------------------------------- `last`
\* ctx.from of an update, as the sender mapping reads it.
From(u) == [username |-> u.username, fromId |-> u.fromId,
            first_name |-> u.first_name, last_name |-> u.last_name]
NoFrom == [username |-> Undefined, fromId |-> Undefined,
           first_name |-> Undefined, last_name |-> Undefined]
Blank ==
    [kind |-> "init", conn |-> 0, shape |-> "", rawOrigin |-> Undefined,
     id |-> Undefined, origin |-> Undefined, sender |-> Undefined,
     message |-> Undefined, key |-> "", fault |-> FALSE, admitted |-> FALSE,
     idSeen |-> FALSE, prevT |-> Never, sent |-> <<>>, raised |-> FALSE,
     tg |-> 0, chatId |-> "", chatType |-> "", hasText |-> FALSE,
     idBy |-> 0, pairBy |-> 0, from |-> NoFrom, pruned |-> 0, cleared |-> FALSE]

\* ------------------------------------------------------------------ actions
Tables ==
    [usernameMap : {[k \in {"bob"} |-> "Bobby"]}, idMap : {[k \in {"42"} |-> "Steve"]}]

\* user_mappings.json of every kind: absent or empty, with an entry, with an
\* entry whose value is the empty string.
IdentityTables ==
    [usernameMap : {[k \in {} |-> ""], [k \in {"bob"} |-> "Bobby"], [k \in {"bob"} |-> ""]},
     idMap : {[k \in {} |-> ""], [k \in {"42"} |-> "Steve"]}]

ConfigOf(tokens, chats, tables) ==
    {[program |-> "index.js", BOT_TOKEN |-> b, CHAT_ID |-> c,
      usernameMap |-> t.usernameMap, idMap |-> t.idMap] :
        b \in tokens, c \in chats, t \in tables}

Config(tokens, chats) == ConfigOf(tokens, chats, Tables)

\* The state after startup, but for the configuration and the sockets.
InitState ==
    /\ recentHashTimestamps = [k \in HashKeys |-> Never]
    /\ now = 0
    /\ ticks = 0
    /\ inflight = 0
    /\ admittedAt = [p \in Pairs |-> Never]
    /\ idsSinceClear = {}
    /\ prevTg = [key |-> "", t |-> Never]
    /\ inbox = [c \in Conns |-> <<>>]
    /\ seq = [c \in Conns |-> 0]
    /\ admitter = [id |-> {}, pair |-> [p \in Pairs |-> 0]]
    /\ last = Blank

Init ==
    /\ env \in Config({"", "tok"}, {"", "-100"}) \ Config({""}, {""})
    /\ clients = <<>>
    /\ readyState = [c \in Conns |-> "CLOSED"]
    /\ recentIds = [named |-> {}, anon |-> 0]
    /\ trace = {}
    /\ InitState

\* server 'upgrade' -> wss.handleUpgrade -> 'connection'
Connect(c) ==
    /\ c \notin Range(clients)
    /\ clients' = Append(clients, c)
    /\ readyState' = [readyState EXCEPT ![c] = "OPEN"]
    /\ last' = [kind |-> "connect", conn |-> c] @@ Blank
    /\ UNCHANGED hist
    /\ UNCHANGED <<env, recentIds, recentHashTimestamps, now, ticks,
                   inflight, admittedAt, idsSinceClear, prevTg>>

\* the closing handshake has started: the socket is still in wss.clients
StartClose(c) ==
    /\ c \in Range(clients)
    /\ IsOpen(c)
    /\ readyState' = [readyState EXCEPT ![c] = "CLOSING"]
    /\ last' = [kind |-> "closing", conn |-> c] @@ Blank
    /\ UNCHANGED hist
    /\ UNCHANGED <<env, clients, recentIds, recentHashTimestamps, now, ticks,
                   inflight, admittedAt, idsSinceClear, prevTg>>

\* ws 'close': the socket leaves wss.clients; the handler only logs
Close(c) ==
    /\ c \in Range(clients)
    /\ clients' = SelectSeq(clients, LAMBDA d : d # c)
    /\ readyState' = [readyState EXCEPT ![c] = "CLOSED"]
    /\ last' = [kind |-> "close", conn |-> c] @@ Blank
    /\ UNCHANGED hist
    /\ UNCHANGED <<env, recentIds, recentHashTimestamps, now, ticks,
                   inflight, admittedAt, idsSinceClear, prevTg>>

\* The 'message' handler of socket ws, given frame f; bad is the socket whose
\* send throws during this broadcast (0: none does).
ClientMessage(ws, f, bad) ==
    \* (\E over a singleton names a value that the handler computes once)
    \E obj \in {JsonParse(f)} :
    \E e \in {normalize(obj)} :
    \E k \in {hashKey(e.sender, e.message)} :
    \E pruned \in {pruneRecent(recentIds, recentHashTimestamps, now)} :
    \E fault \in {PropertyAccessThrows(obj)} :
    \E admit \in {/\ ~fault
                  /\ ~DuplicateById(pruned.ids, e.id)
                  /\ ~DuplicateByHash(pruned.hashes, k, now)} :
    \E out \in {Deliver(admit, BroadcastTargets(ws), bad)} :
    LET forward == admit /\ ~out.raised /\ ShouldForward(e.origin)
        emptied == RecentIdsSize(recentIds) > 0 /\ RecentIdsSize(pruned.ids) = 0
        kept == IF emptied THEN {} ELSE idsSinceClear
        record == "inbox" \in trace /\ admit
        payload == <<ws, seq[ws] + 1>>
    IN
    /\ ws \in Range(clients)
    /\ IsOpen(ws)
    /\ bad \in Range(BroadcastTargets(ws)) \cup {0}
    /\ bad # 0 => admit          \* no send is called for a frame that is dropped
    /\ forward => inflight < MaxInflight
    /\ IF fault
       THEN UNCHANGED <<recentIds, recentHashTimestamps, admittedAt, idsSinceClear>>
       ELSE /\ recentIds' = IF admit THEN AddId(pruned.ids, e.id) ELSE pruned.ids
            /\ recentHashTimestamps' =
                 IF admit THEN [pruned.hashes EXCEPT ![k] = now] ELSE pruned.hashes
            /\ admittedAt' =
                 IF admit THEN [admittedAt EXCEPT ![<<e.sender, e.message>>] = now]
                 ELSE admittedAt
            /\ idsSinceClear' = IF admit THEN kept \cup ({e.id} \ {Generated}) ELSE kept
    /\ inflight' = IF forward THEN inflight + 1 ELSE inflight
    /\ seq' = IF record THEN [seq EXCEPT ![ws] = @ + 1] ELSE seq
    /\ inbox' = IF record
                THEN [r \in Conns |-> IF r \in Range(out.sent)
                                      THEN Receive(inbox[r], payload)
                                      ELSE inbox[r]]
                ELSE inbox
    /\ admitter' = IF fault \/ "admitter" \notin trace THEN admitter
                   ELSE IF ~admit THEN admitter
                   ELSE [id |-> {x \in admitter.id : x[1] # e.id}
                                \cup ({<<e.id, ws>>} \ {<<Generated, ws>>}),
                         pair |-> [admitter.pair EXCEPT ![<<e.sender, e.message>>] = ws]]
    /\ trace' = trace
    /\ last' = IF fault
               THEN [kind |-> "client", conn |-> ws, shape |-> obj.shape,
                     fault |-> TRUE] @@ Blank
               ELSE [kind |-> "client", conn |-> ws, shape |-> obj.shape,
                     rawOrigin |-> f.origin, id |-> e.id, origin |-> e.origin,
                     sender |-> e.sender, message |-> e.message, key |-> k,
                     admitted |-> admit,
                     idSeen |-> e.id \in kept,
                     prevT |-> admittedAt[<<e.sender, e.message>>],
                     idBy |-> AdmitterOfId(admitter.id, e.id),
                     pairBy |-> admitter.pair[<<e.sender, e.message>>],
                     sent |-> out.sent, raised |-> out.raised,
                     tg |-> IF forward THEN 1 ELSE 0] @@ Blank
    /\ UNCHANGED <<env, clients, readyState, now, ticks, prevTg>>

\* What both Telegraf handlers do with update u once accept is decided.
TgHandle(kind, u, accept, mapped, bad) ==
    LET text == extractTextFromCtx(u)
        hasText == ~Falsy(text)
        k == hashKey(mapped, text)
        go == hasText /\ accept
        out == IF go THEN SendEach(TgBroadcastTargets, bad)
               ELSE [sent |-> <<>>, raised |-> FALSE]
    IN
    /\ TELEGRAM_ENABLED
    /\ bad \in Range(TgBroadcastTargets) \cup {0}
    /\ bad # 0 => go             \* no send is called for an update that is ignored
    /\ prevTg' = IF out.sent # <<>> THEN [key |-> k, t |-> now] ELSE prevTg
    /\ last' = IF go
               THEN [kind |-> kind, chatId |-> u.chatId, chatType |-> u.chatType,
                     hasText |-> hasText, admitted |-> TRUE, origin |-> "telegram",
                     id |-> Generated, sender |-> mapped, message |-> text, key |-> k,
                     prevT |-> IF prevTg.key = k THEN prevTg.t ELSE Never,
                     from |-> From(u),
                     sent |-> out.sent, raised |-> out.raised] @@ Blank
               ELSE [kind |-> kind, chatId |-> u.chatId, chatType |-> u.chatType,
                     hasText |-> hasText] @@ Blank
    /\ UNCHANGED <<env, clients, readyState, recentIds, recentHashTimestamps, now,
                   ticks, inflight, admittedAt, idsSinceClear>>
    /\ UNCHANGED hist

\* bot.on('message')
TgMessage(u, bad) ==
    TgHandle("tg_message", u, AcceptMessage(u.chatId, u.chatType),
             resolveSender(u), bad)

\* bot.on('channel_post')
TgChannelPost(u, bad) ==
    TgHandle("tg_channel_post", u, AcceptChannelPost(u.chatId, u.chatType),
             resolveSenderChannelPost(u), bad)

\* setInterval(() => { pruneRecent(); }, 2000): a firing of the interval, which
\* the event loop runs between two handlers, at whatever instant that is.
TimerPrune ==
    LET pruned == pruneRecent(recentIds, recentHashTimestamps, now)
        emptied == RecentIdsSize(recentIds) > 0 /\ RecentIdsSize(pruned.ids) = 0
    IN
    /\ recentIds' = pruned.ids
    /\ recentHashTimestamps' = pruned.hashes
    /\ idsSinceClear' = IF emptied THEN {} ELSE idsSinceClear
    /\ last' = [kind |-> "prune",
                pruned |-> Cardinality({k \in HashKeys : pruned.hashes[k] # recentHashTimestamps[k]}),
                cleared |-> pruned.ids # recentIds] @@ Blank
    /\ UNCHANGED hist
    /\ UNCHANGED <<env, clients, readyState, now, ticks, inflight, admittedAt, prevTg>>

\* the clock moves on
Tick(d) ==
    /\ ticks < MaxTicks
    /\ now' = now + d
    /\ ticks' = ticks + 1
    /\ last' = [kind |-> "tick"] @@ Blank
    /\ UNCHANGED hist
    /\ UNCHANGED <<env, clients, readyState, recentIds, recentHashTimestamps,
                   inflight, admittedAt, idsSinceClear, prevTg>>

\* a sendMessage promise settles: .then logs the message id, .catch logs the error
SettleSend(ok) ==
    /\ inflight > 0
    /\ inflight' = inflight - 1
    /\ last' = [kind |-> IF ok THEN "sent_ok" ELSE "send_err"] @@ Blank
    /\ UNCHANGED hist
    /\ UNCHANGED <<env, clients, readyState, recentIds, recentHashTimestamps, now,
                   ticks, admittedAt, idsSinceClear, prevTg>>

\* ------------------------------------------- the other relays of the repository
\* server.js (socket.io), unnamed/part_000 and unnamed/part_001 (ws): each is
\* a program of its own; env.program says which one runs.
Programs == {"server.js", "part_000", "part_001"}

\* What a client of the minimal relays sends: an object of type 'chat', an
\* object of another type, JSON null, or a text that is not JSON.
VariantFrames == {"chat", "other", "null", "text"}

\* A handler that starts no broadcast of index.js's kind: its record in `last`.
Did(kind, ws, out, tg) ==
    [kind |-> kind, conn |-> ws, admitted |-> TRUE, sent |-> out.sent,
     raised |-> out.raised, tg |-> tg] @@ Blank

VariantStep(rec) ==
    /\ rec.tg = 1 => inflight < MaxInflight
    /\ inflight' = inflight + rec.tg
    /\ last' = rec
    /\ UNCHANGED <<env, clients, readyState, recentIds, recentHashTimestamps, now,
                   ticks, admittedAt, idsSinceClear, prevTg>>
    /\ UNCHANGED hist

\* server.js: bot is set when TOKEN is
ServerBot == BOT_TOKEN # ""

\* server.js, socket.on('send'): io.emit to every socket, then sendMessage
ServerSend(socket) ==
    /\ env.program = "server.js"
    /\ socket \in Range(clients)
    /\ VariantStep(Did("server_send", socket, [sent |-> clients, raised |-> FALSE],
                       IF ServerBot /\ CHAT_ID # "" THEN 1 ELSE 0))

\* server.js, bot.on('message'): logs the message, then sendMessage to CHAT_ID
ServerTgMessage ==
    /\ env.program = "server.js"
    /\ ServerBot
    /\ VariantStep(Did("server_tg_message", 0, [sent |-> <<>>, raised |-> FALSE],
                       IF CHAT_ID # "" THEN 1 ELSE 0))

\* part_000, ws.on('message'): a 'chat' object goes to the other open sockets
\* and, with bot and TELE_CHAT_ID set, to Telegram
Part0Message(ws, f, bad) ==
    LET chat == f = "chat"
        out == Deliver(chat, BroadcastTargets(ws), bad)
    IN
    /\ env.program = "part_000"
    /\ ws \in Range(clients) /\ IsOpen(ws)
    /\ bad \in Range(BroadcastTargets(ws)) \cup {0}
    /\ VariantStep(Did("part0_message", ws, out,
                       IF chat /\ ~out.raised /\ BOT_TOKEN # "" /\ CHAT_ID # ""
                       THEN 1 ELSE 0))

\* part_000, bot.on('text'): broadcast to every open socket
Part0TgText(bad) ==
    /\ env.program = "part_000"
    /\ BOT_TOKEN # ""
    /\ bad \in Range(TgBroadcastTargets) \cup {0}
    /\ VariantStep(Did("part0_tg_text", 0, SendEach(TgBroadcastTargets, bad), 0))

\* part_001, ws.on('message'): the text goes to the other open sockets as it
\* is; with Telegram enabled it is parsed and sent on
Part1Message(ws, f, bad) ==
    LET out == SendEach(BroadcastTargets(ws), bad)
    IN
    /\ env.program = "part_001"
    /\ ws \in Range(clients) /\ IsOpen(ws)
    /\ bad \in Range(BroadcastTargets(ws)) \cup {0}
    /\ VariantStep(Did("part1_message", ws, out,
                       IF ~out.raised /\ TELEGRAM_ENABLED /\ f \in {"chat", "other"}
                       THEN 1 ELSE 0))

InitVariants ==
    /\ env \in {[program |-> p, BOT_TOKEN |-> b, CHAT_ID |-> c,
                  usernameMap |-> t.usernameMap, idMap |-> t.idMap] :
                    p \in Programs, b \in {"", "tok"}, c \in {"", "-100"}, t \in Tables}
    /\ clients = <<>>
    /\ readyState = [c \in Conns |-> "CLOSED"]
    /\ recentIds = [named |-> {}, anon |-> 0]
    /\ trace = {}
    /\ InitState

NextVariants ==
    \/ \E c \in Conns : Connect(c)
    \/ \E c \in Conns : StartClose(c)
    \/ \E c \in Conns : Close(c)
    \/ \E c \in Conns : ServerSend(c)
    \/ ServerTgMessage
    \/ \E c \in Conns, f \in VariantFrames, bad \in Conns \cup {0} : Part0Message(c, f, bad)
    \/ \E bad \in Conns \cup {0} : Part0TgText(bad)
    \/ \E c \in Conns, f \in VariantFrames, bad \in Conns \cup {0} : Part1Message(c, f, bad)
    \/ \E ok \in BOOLEAN : SettleSend(ok)

SpecVariants == InitVariants /\ [][NextVariants]_vars

\* The router at one instant: sockets come and go, frames and updates arrive,
\* sendMessage promises settle; the clock stands still.
Next ==
    \/ \E c \in Conns : Connect(c)
    \/ \E c \in Conns : StartClose(c)
    \/ \E c \in Conns : Close(c)
    \/ \E c \in Conns, f \in RouteFrames, bad \in Conns \cup {0} : ClientMessage(c, f, bad)
    \/ \E u \in RouteMessageUpdates, bad \in Conns \cup {0} : TgMessage(u, bad)
    \/ \E u \in RouteChannelPostUpdates, bad \in Conns \cup {0} : TgChannelPost(u, bad)
    \/ TimerPrune
    \/ \E ok \in BOOLEAN : SettleSend(ok)

Spec == Init /\ [][Next]_vars

\* The deduplicator under a fine clock: two open sockets, Telegram disabled;
\* the history of which socket an id and a (sender, message) came from is kept.
InitDedup ==
    /\ env \in Config({""}, {"-100"})
    /\ clients = <<1, 2>>
    /\ readyState = [c \in Conns |-> IF c \in {1, 2} THEN "OPEN" ELSE "CLOSED"]
    \* recentIds holds the ids of earlier traffic: none, or as many as the limit
    /\ recentIds \in [named : {{}}, anon : {0, RECENT_IDS_LIMIT}]
    /\ trace = {"admitter"}
    /\ InitState

NextDedup ==
    \/ \E c \in {1, 2}, f \in DedupFrames : ClientMessage(c, f, 0)
    \/ TimerPrune
    \/ \E d \in FineSteps : Tick(d)

SpecDedup == InitDedup /\ [][NextDedup]_vars

\* The same, with the interval that setInterval keeps firing.
SpecPrune == InitDedup /\ [][NextDedup]_vars /\ WF_vars(TimerPrune)

\* The Telegraf handlers under every update: two open sockets, Telegram enabled.
InitTg ==
    /\ env \in Config({"tok"}, {"-100"})
    /\ clients = <<1, 2>>
    /\ readyState = [c \in Conns |-> IF c \in {1, 2} THEN "OPEN" ELSE "CLOSED"]
    /\ recentIds = [named |-> {}, anon |-> 0]
    /\ trace = {}
    /\ InitState

NextTg ==
    \/ \E u \in MessageUpdates, bad \in Conns \cup {0} : TgMessage(u, bad)
    \/ \E u \in ChannelPostUpdates, bad \in Conns \cup {0} : TgChannelPost(u, bad)
    \/ \E c \in Conns : StartClose(c)
    \/ \E d \in FineSteps : Tick(d)

SpecTg == InitTg /\ [][NextTg]_vars

\* The sender mapping under every ctx.from and every mapping table: one open
\* socket, every update accepted.
IdentityUpdates ==
    {Update("-100", "channel", "hello", Undefined, u, i, f, l) :
        u \in {Undefined, "", "Bob", "Ann", "constructor"},
        i \in {Undefined, "42", "7"},
        f \in {Undefined, "", "Al"},
        l \in {Undefined, "Ko"}}

InitIdentity ==
    /\ env \in ConfigOf({"tok"}, {"-100"}, IdentityTables)
    /\ clients = <<1>>
    /\ readyState = [c \in Conns |-> IF c = 1 THEN "OPEN" ELSE "CLOSED"]
    /\ recentIds = [named |-> {}, anon |-> 0]
    /\ trace = {}
    /\ InitState

NextIdentity ==
    \/ \E u \in IdentityUpdates : TgMessage(u, 0)
    \/ \E u \in IdentityUpdates : TgChannelPost(u, 0)

SpecIdentity == InitIdentity /\ [][NextIdentity]_vars

\* The relay seen from its connections: two open sockets that send the same
\* frame a window apart, Telegram updates, prune runs and sendMessage
\* settlements in between; the history of who received what is kept.
ConnFrames == {f \in DedupFrames : f.sender = "a" /\ f.id = Undefined}
ConnSteps == {DEDUPE_WINDOW_MS}

InitConn ==
    /\ env \in Config({"tok"}, {"-100"})
    /\ clients = <<1, 2>>
    /\ readyState = [c \in Conns |-> IF c \in {1, 2} THEN "OPEN" ELSE "CLOSED"]
    /\ recentIds = [named |-> {}, anon |-> 0]
    /\ trace = {"inbox"}
    /\ InitState

NextConn ==
    \/ \E c \in {1, 2}, f \in ConnFrames, bad \in Conns \cup {0} : ClientMessage(c, f, bad)
    \/ \E u \in RouteChannelPostUpdates, bad \in Conns \cup {0} : TgChannelPost(u, bad)
    \/ TimerPrune
    \/ \E ok \in BOOLEAN : SettleSend(ok)
    \/ \E d \in ConnSteps : Tick(d)

SpecConn == InitConn /\ [][NextConn]_vars

\* ------------------------------------------------------------------ claims
IsClient == last.kind = "client"
IsTelegram == last.kind \in {"tg_message", "tg_channel_post"}
Handled == IsClient /\ ~last.fault
Sent == Range(last.sent)

\* C1 (as amended): no handler of a Telegram update starts a sendMessage, and
\* a client frame whose origin property is a truthy value other than 'client'
\* starts none either.
NoExternalLoopback ==
    /\ IsTelegram => last.tg = 0
    /\ Handled /\ ~Falsy(last.rawOrigin) /\ last.rawOrigin # "client" => last.tg = 0

\* C1 as stated: a client frame whose origin property is set to anything
\* other than 'client' starts no sendMessage.
NoExternalLoopbackAnyValue ==
    /\ IsTelegram => last.tg = 0
    /\ Handled /\ last.rawOrigin \notin {Undefined, "client"} => last.tg = 0

\* A frame of origin 'telegram' is admitted with Telegram enabled and is
\* broadcast to another socket without a sendMessage.
NoExternalLoopbackWitness ==
    /\ Handled /\ last.admitted /\ last.rawOrigin = "telegram"
    /\ TELEGRAM_ENABLED /\ last.sent # <<>> /\ ~last.raised /\ last.tg = 0

\* C2: the payload of a frame received from socket c is never sent to c.
NoSelfEcho == IsClient => last.conn \notin Sent

\* A frame is broadcast to some socket while its sender is open.
NoSelfEchoWitness ==
    /\ Handled /\ last.admitted /\ last.sent # <<>> /\ IsOpen(last.conn)

\* C3: a frame whose id was admitted before, with recentIds not emptied
\* since, is rejected.
DedupIdempotence == Handled /\ last.idSeen => ~last.admitted

\* A frame is rejected for its id alone: its (sender, message) was admitted
\* more than a window ago and its key is not held back by the hash test.
DedupIdempotenceWitness ==
    /\ Handled /\ last.idSeen /\ ~last.admitted
    /\ last.prevT # Never /\ now - last.prevT > DEDUPE_WINDOW_MS
    /\ ~DuplicateByHash(recentHashTimestamps, last.key, now)

\* C4: a frame with a new id whose (sender, message) was last admitted at T
\* is rejected before T + WINDOW and admitted after T + WINDOW.
WindowExpiry ==
    Handled /\ ~last.idSeen /\ last.prevT # Never =>
        /\ now < last.prevT + DEDUPE_WINDOW_MS => ~last.admitted
        /\ now > last.prevT + DEDUPE_WINDOW_MS => last.admitted

\* C5: a frame that the deduplicator rejects is sent to no socket and starts
\* no sendMessage; so does a frame whose (sender, message) was admitted less
\* than a window ago.
DuplicateHasNoEffect ==
    /\ Handled /\ ~last.admitted => last.sent = <<>> /\ last.tg = 0
    /\ Handled /\ last.prevT # Never /\ now - last.prevT < DEDUPE_WINDOW_MS
         => last.sent = <<>> /\ last.tg = 0

\* A client-origin frame is rejected while another socket is open and
\* Telegram is enabled.
DuplicateHasNoEffectWitness ==
    /\ Handled /\ ~last.admitted /\ last.origin = "client"
    /\ BroadcastTargets(last.conn) # <<>> /\ TELEGRAM_ENABLED

\* C6: every frame becomes an envelope with id, origin, sender and message set.
TotalNormalization ==
    IsClient =>
        /\ ~last.fault
        /\ Undefined \notin {last.id, last.origin, last.sender, last.message}

\* C7: a frame from a socket of one room is sent only to sockets of that room.
RoomIsolation == IsClient => \A t \in Sent : RoomOf(t) = RoomOf(last.conn)

\* C8: a Telegram post whose (sender, text) was broadcast less than a window
\* ago is not broadcast again.
TelegramDeduplicated ==
    IsTelegram /\ last.sent # <<>> /\ last.prevT # Never =>
        now - last.prevT >= DEDUPE_WINDOW_MS

\* C9: an update is broadcast only if its chat is CHAT_ID or private, and
\* both handlers broadcast every update with a text that passes this test.
ChatAccepted == last.chatId = CHAT_ID \/ last.chatType = "private"
AcceptanceFiltering ==
    /\ IsTelegram /\ last.sent # <<>> => ChatAccepted
    /\ IsTelegram /\ last.hasText => (last.admitted <=> ChatAccepted)

\* A 'message' update of a private chat other than CHAT_ID is broadcast.
AcceptanceFilteringWitness ==
    /\ last.kind = "tg_message" /\ last.chatId # CHAT_ID
    /\ last.chatType = "private" /\ last.sent # <<>>

\* C10: a client frame starts exactly one sendMessage if it is admitted, its
\* origin is 'client' and Telegram is enabled, and none otherwise; the
\* settlement of a sendMessage starts none.
FireOnce ==
    /\ IsClient =>
         last.tg = IF last.admitted /\ last.origin = "client" /\ TELEGRAM_ENABLED
                   THEN 1 ELSE 0
    /\ last.kind \in {"sent_ok", "send_err"} => last.tg = 0

\* C11: a handler that sends an admitted envelope reaches every open target
\* but the one whose send throws, and still starts the sendMessage of a
\* client-origin envelope.
Targets == IF IsClient THEN BroadcastTargets(last.conn) ELSE TgBroadcastTargets
FailedTarget == IF last.raised THEN {Targets[Len(last.sent) + 1]} ELSE {}
BestEffortFanout ==
    (Handled \/ IsTelegram) /\ last.admitted =>
        /\ Range(Targets) \ FailedTarget \subseteq Sent
        /\ Handled /\ last.origin = "client" /\ TELEGRAM_ENABLED => last.tg = 1

\* C12 (as amended): the payloads that a socket receives from one other
\* socket arrive in the order in which that socket's frames were admitted.
FromConn(q, c) == SelectSeq(q, LAMBDA m : m[1] = c)
Increasing(q) == \A i \in 1 .. Len(q) - 1 : q[i][2] < q[i + 1][2]
GlobalDedup ==
    Handled /\ \/ last.idBy # 0 /\ last.idSeen
               \/ last.pairBy # 0 /\ now - last.prevT < DEDUPE_WINDOW_MS
        => ~last.admitted

\* C20 as stated: a frame is rejected if its id was ever admitted from any
\* socket, or if its (sender, message) was admitted less than a window ago.
GlobalDedupEver ==
    Handled /\ \/ last.idBy # 0
               \/ last.pairBy # 0 /\ now - last.prevT < DEDUPE_WINDOW_MS
        => ~last.admitted

\* A frame of one socket is rejected for an id that the other socket sent,
\* a window after the (sender, message) was admitted.
GlobalDedupWitness ==
    /\ Handled /\ ~last.admitted
    /\ last.idBy \notin {0, last.conn} /\ last.idSeen
    /\ now - last.prevT >= DEDUPE_WINDOW_MS

\* A frame of one socket is rejected for a (sender, message) that the other
\* socket sent less than a window ago, its id being new.
GlobalDedupByHashWitness ==
    /\ Handled /\ ~last.admitted
    /\ last.idBy = 0 /\ last.pairBy \notin {0, last.conn}

\* C13: every socket that a broadcast sends to, and the one whose send
\* throws, is OPEN; a socket that is closing or gone is sent nothing.
NoSendToClosed ==
    IsClient \/ IsTelegram =>
        \A c \in Sent \cup FailedTarget : c \in Range(clients) /\ IsOpen(c)

\* A broadcast reaches an open socket while another socket of wss.clients is
\* closing.
NoSendToClosedWitness ==
    /\ IsClient \/ IsTelegram
    /\ last.sent # <<>>
    /\ \E c \in Range(clients) : readyState[c] = "CLOSING"

\* C14: the sender of a Telegram broadcast is the first available of: the
\* table entry of the lower-cased username, the table entry of the id, the
\* username, the name parts, the id, the placeholder; it is never empty, and
\* both handlers map a ctx.from to the same sender.
TableEntry(map, k) == IF k \in DOMAIN map THEN map[k] ELSE Undefined
NameParts(f) ==
    IF Falsy(f.first_name) /\ Falsy(f.last_name) THEN Undefined
    ELSE (IF Falsy(f.first_name) THEN "" ELSE f.first_name)
         \o (IF Falsy(f.last_name) THEN "" ELSE " " \o f.last_name)
FirstAvailable(cands) ==
    cands[CHOOSE i \in 1 .. Len(cands) :
            ~Falsy(cands[i]) /\ \A j \in 1 .. i - 1 : Falsy(cands[j])]
FallbackChain(f) ==
    FirstAvailable(<<IF Falsy(f.username) THEN Undefined
                     ELSE TableEntry(env.usernameMap, toLowerCase(f.username)),
                     IF Falsy(f.fromId) THEN Undefined
                     ELSE TableEntry(env.idMap, f.fromId),
                     f.username, NameParts(f), f.fromId, "[TG]">>)
IdentityFallbackChain ==
    IsTelegram /\ last.admitted =>
        /\ last.sender = FallbackChain(last.from)
        /\ ~Falsy(last.sender)
        /\ resolveSender(last.from) = resolveSenderChannelPost(last.from)

\* C15: in server.js and in the minimal relays, the handler of a message
\* that came from Telegram starts no sendMessage.
NoExternalLoopbackVariants ==
    last.kind \in {"server_tg_message", "part0_tg_text"} => last.tg = 0

\* C16: a run of the prune timer leaves in recentHashTimestamps exactly the
\* entries that are at most a window old, unchanged, and leaves recentIds
\* empty if it held more than 2000 ids and unchanged otherwise.
PruneEffect ==
    [][last'.kind = "prune" =>
        /\ \A k \in HashKeys :
              recentHashTimestamps'[k] =
                IF recentHashTimestamps[k] # Never
                   /\ now - recentHashTimestamps[k] <= DEDUPE_WINDOW_MS
                THEN recentHashTimestamps[k]
                ELSE Never
        /\ recentIds' = IF RecentIdsSize(recentIds) > RECENT_IDS_LIMIT
                        THEN [named |-> {}, anon |-> 0]
                        ELSE recentIds]_vars

\* A run of the prune timer has deleted an entry and emptied recentIds.
PruneEffectWitness ==
    last.kind = "prune" /\ last.pruned > 0 /\ last.cleared

\* A run of the prune timer has kept an entry that is exactly a window old.
PruneEffectBoundaryWitness ==
    /\ last.kind = "prune"
    /\ \E k \in HashKeys : recentHashTimestamps[k] # Never
                             /\ now - recentHashTimestamps[k] = DEDUPE_WINDOW_MS

\* C17: with the interval firing again and again, an entry of
\* recentHashTimestamps that is older than a window does not stay, whether or
\* not a frame arrives; and an admission is one step: right after it the
\* timestamp and the id of the frame are recorded.
Stale(k) ==
    recentHashTimestamps[k] # Never /\ now - recentHashTimestamps[k] > DEDUPE_WINDOW_MS
PruneEventually ==
    /\ \A k \in HashKeys : Stale(k) ~> ~Stale(k)
    /\ [](Handled /\ last.admitted =>
            /\ recentHashTimestamps[last.key] = now
            /\ last.id = Generated \/ last.id \in recentIds.named)

\* The prune timer has deleted an entry while no (sender, message) was
\* admitted within the last window.
PruneEventuallyWitness ==
    /\ last.kind = "prune" /\ last.pruned > 0
    /\ \A p \in Pairs : admittedAt[p] = Never \/ now - admittedAt[p] > DEDUPE_WINDOW_MS

\* C19: recentIds never holds more than 2001 ids.
BoundedIdMemory == RecentIdsSize(recentIds) <= RECENT_IDS_LIMIT + 1

\* recentIds holds 2001 ids.
BoundedIdMemoryWitness ==
    IsClient /\ last.admitted /\ RecentIdsSize(recentIds) = RECENT_IDS_LIMIT + 1

\* C18: a rejected frame leaves the timestamp of its (sender, message) and
\* recentIds as they were, and a frame with a new id is admitted as soon as a
\* window has passed since its (sender, message) was last admitted.
AnchoredAtAdmission ==
    /\ Handled /\ ~last.admitted =>
          /\ \/ recentHashTimestamps[last.key] # now
             \/ \E p \in Pairs : hashKey(p[1], p[2]) = last.key /\ admittedAt[p] = now
          /\ last.id \in recentIds.named => last.idSeen
    /\ Handled /\ ~last.idSeen /\ last.prevT # Never
          /\ now - last.prevT >= DEDUPE_WINDOW_MS => last.admitted

====
